---- MODULE Spec2Model ----
(***************************************************************************)
(* Model of the three scripts of the repository:                           *)
(*   src/lg.py     channel / programme-guide pipeline (M3U + XMLTV)        *)
(*   src/udptv.py  playlist relay (download, rewrite group labels, save)   *)
(*                                                                         *)
(* Text is modelled as a sequence of fragments (TLA+ strings): a Python    *)
(* string is the concatenation of its fragments, "" is << >>.  JSON values *)
(* that are not strings are one-fragment marker sequences (Absent, Null,   *)
(* Num).  Library behaviour follows requests >= 2.27 (a body that is not   *)
(* JSON raises requests.exceptions.JSONDecodeError, a RequestException).   *)
(***************************************************************************)
EXTENDS Integers, Sequences, FiniteSets, TLC

VARIABLES
    pc,        \* control location of the running script
    fetch,     \* activation record of fetch_data (lg.py:63-89)
    env,       \* the remote side and the interpreter, see InitEnv
    channels,  \* lg.py: list returned by get_channels
    m3u,       \* lg.py: lines built by generate_m3u_playlist
    tv,        \* lg.py: children of the <tv> root built by generate_epg_xml
    chIdx,     \* lg.py: position of the programme loop (lg.py:234)
    guide,     \* lg.py: per channel so far, what get_epg_data fetched and gave (lg.py:240)
    files,     \* which output files were written
    exitCode,  \* process exit status; -1 while running
    lines,     \* udptv.py: lines handed to clean_playlist
    cleaned,   \* udptv.py: list returned by clean_playlist
    pass,      \* udptv.py: number of completed relay passes
    log        \* what main() and the relay report: the messages that precede an exit

vars == <<pc, fetch, env, channels, m3u, tv, chIdx, guide, files, exitCode, lines, cleaned,
          pass, log>>

----------------------------------------------------------------------------
(* Bounds of the model *)

MaxRetriesArg == 4     \* largest `retries` argument tried on fetch_data
MaxChannels == 2       \* longest channel catalogue served to get_channels
MaxPrograms == 2       \* most programmes the guide endpoint serves in one run
MaxGuideChannels == 2  \* longest channel list handed to generate_epg_xml
MaxPlaylistChannels == 3  \* longest channel list handed to generate_m3u_playlist
MaxMainChannels == 1   \* longest catalogue served in a run of main()
MaxMainPrograms == 1   \* most programmes served in a run of main()
MaxLines == 3          \* longest playlist downloaded by the relay

(* Program constants *)

MAX_RETRIES == 3
RETRY_DELAY == 2

----------------------------------------------------------------------------
(* Values *)

Absent == <<"<absent>">>     \* key not present in the JSON object
Null == <<"<null>">>         \* JSON null, Python None
Num == <<"<number 5>">>      \* a JSON number (truthy, not a string)
NonStrings == {Absent, Null, Num}

IsStr(v) == v \notin NonStrings

\* Python truthiness of a scalar: None and "" are falsy.
Truthy(v) == v \notin {Absent, Null, << >>}

\* dict.get(key, default): the default only replaces a missing key.
Get(v, default) == IF v = Absent THEN default ELSE v

\* dict.get(key): a missing key reads as None.
GetNone(v) == IF v = Absent THEN Null ELSE v

\* str(v)
Str(v) == IF v = Num THEN <<"5">> ELSE IF v = Null THEN <<"None">> ELSE v

RECURSIVE Flatten(_)
Flatten(ss) == IF ss = << >> THEN << >> ELSE Head(ss) \o Flatten(Tail(ss))

RECURSIVE Join(_, _)
\* sep.join(parts)
Join(sep, parts) ==
    IF parts = << >> THEN << >>
    ELSE IF Len(parts) = 1 THEN Head(parts)
    ELSE Head(parts) \o sep \o Join(sep, Tail(parts))

Range(s) == {s[i] : i \in 1..Len(s)}

SeqsUpTo(S, n) == UNION {[1..k -> S] : k \in 0..n}

\* A decoded JSON body.  t: "null" | "list" | "dict" | "str";
\* k: for a dict, the state of its 'programs' key; v: the items.
Body(t, k, v) == [t |-> t, k |-> k, v |-> v]
NoneV == Body("null", "", << >>)
BodyTruthy(b) ==
    \/ b.t = "list" /\ b.v # << >>
    \/ b.t = "dict" /\ b.k # "empty"
    \/ b.t = "str"

----------------------------------------------------------------------------
(* URLs: urllib.parse.urljoin against BASE_URL (lg.py:15), str.startswith *)

BASE_URL == <<"https://", "channel-lineup.lgchannels.com">>
SchemeFragments == {"http://", "https://"}

\* s.startswith('http')
StartsWithHttp(s) == s # << >> /\ Head(s) \in SchemeFragments

\* urljoin(BASE_URL, url): BASE_URL has an empty path
urljoin(base, url) ==
    IF ~Truthy(url) THEN base
    ELSE IF StartsWithHttp(url) THEN url
    ELSE IF Head(url) = "//" THEN <<Head(base)>> \o Tail(url)
    ELSE IF Head(url) = "/" THEN base \o url
    ELSE base \o <<"/">> \o url

----------------------------------------------------------------------------
(* Raw channel records as the catalogue endpoint serves them *)

RawChannel(id, name, logoUrl, streamUrl, description, categories) ==
    [dict |-> TRUE, id |-> id, name |-> name, channelNumber |-> Absent,
     logoUrl |-> logoUrl, streamUrl |-> streamUrl, description |-> description,
     categories |-> categories]

\* a list item that is not an object
RawNotDict ==
    [dict |-> FALSE, id |-> Absent, name |-> Absent, channelNumber |-> Absent,
     logoUrl |-> Absent, streamUrl |-> Absent, description |-> Absent,
     categories |-> << >>]
RawOk ==
    RawChannel(<<"c1">>, <<"One">>, <<"/", "logo/1.png">>, <<"https://", "cdn/1.m3u8">>,
               <<"First">>, << <<"News">> >>)
RawNoId == RawChannel(Absent, <<"Nameless">>, Absent, <<"http://", "cdn/0.m3u8">>, Absent, << >>)
RawEmptyId == RawChannel(<< >>, Absent, Absent, <<"http://", "cdn/0.m3u8">>, Absent, << >>)
RawNoStream == RawChannel(<<"c2">>, Absent, Absent, Absent, Absent, << >>)
RawEmptyStream == RawChannel(<<"c3">>, <<"Three">>, Null, << >>, Null, << << >> >>)
RawRelStream ==
    RawChannel(Num, <<"Five">>, <<"http://", "img/5.png">>, <<"live/5.m3u8">>, Num,
               << <<"News">>, << >>, <<"Sport">> >>)
RawNumStream == RawChannel(<<"c6">>, <<"Six">>, Absent, Num, Absent, << >>)
RawNumLogo == RawChannel(<<"c7">>, <<"Seven">>, Num, <<"https://", "cdn/7.m3u8">>, Absent, << >>)
RawBadCats == RawChannel(<<"c8">>, <<"Eight">>, Absent, <<"https://", "cdn/8.m3u8">>, Absent, << Num >>)

\* records whose categories are a list of strings
TypedRaw == {RawNotDict, RawOk, RawNoId, RawEmptyId, RawNoStream, RawEmptyStream,
             RawRelStream, RawNumStream, RawNumLogo}
MainRaw == {RawOk, RawNoId, RawBadCats}

----------------------------------------------------------------------------
(* get_channels, lg.py:91-138 *)

StreamOf(raw) == Get(raw.streamUrl, << >>)
LogoOf(raw) == Get(raw.logoUrl, << >>)

\* lg.py:113-115
ResolveStream(s) == IF ~Truthy(s) \/ ~StartsWithHttp(s) THEN urljoin(BASE_URL, s) ELSE s

\* lg.py:117-119
ResolveLogo(l) == IF Truthy(l) /\ ~StartsWithHttp(l) THEN urljoin(BASE_URL, l) ELSE l

\* lg.py:108-111, `if not channel_id`
MissingIdMut(raw) == raw.id = Absent
MissingId(raw) == ~Truthy(GetNone(raw.id))

\* .startswith on a value that is not a string raises AttributeError, which
\* the handler at lg.py:134 logs; the record is not appended
ChannelRaises(raw) ==
    \/ Truthy(StreamOf(raw)) /\ ~IsStr(StreamOf(raw))
    \/ Truthy(LogoOf(raw)) /\ ~IsStr(LogoOf(raw))

KeptChannel(raw) == raw.dict /\ ~MissingId(raw) /\ ~ChannelRaises(raw)

\* lg.py:121-129; src is the position of the raw record (not program state)
ChannelInfo(raw, i) ==
    [id |-> raw.id,
     name |-> Get(raw.name, <<"Channel ">> \o Str(raw.id)),
     number |-> Get(raw.channelNumber, <<"0">>),
     logo |-> ResolveLogo(LogoOf(raw)),
     stream_url |-> ResolveStream(StreamOf(raw)),
     description |-> Get(raw.description, << >>),
     categories |-> raw.categories,
     src |-> i]

RECURSIVE NormalizeFrom(_, _)
\* the loop at lg.py:102-135 from position i on
NormalizeFrom(data, i) ==
    IF i > Len(data) THEN << >>
    ELSE (IF KeptChannel(data[i]) THEN <<ChannelInfo(data[i], i)>> ELSE << >>)
         \o NormalizeFrom(data, i + 1)

\* get_channels applied to what fetch_data returned (lg.py:97-138)
get_channels(data) ==
    IF ~BodyTruthy(data) \/ data.t # "list" THEN << >> ELSE NormalizeFrom(data.v, 1)

----------------------------------------------------------------------------
(* generate_m3u_playlist, lg.py:166-194 *)

EPG_FILENAME == <<"lgchannels_epg.xml.gz">>

\* `if not channel.get('stream_url')` at lg.py:175
NoStreamMut(ch) == FALSE
NoStream(ch) == ~Truthy(ch.stream_url)

\* [c for c in channel['categories'] if c], lg.py:186
NonEmptyCategories(ch) == SelectSeq(ch.categories, LAMBDA c : Truthy(c))

\* ','.join raises TypeError on an item that is not a string
JoinRaises(ch) == \E i \in 1..Len(ch.categories) : ch.categories[i] = Num

\* lg.py:185-188
GroupTitle(ch) ==
    IF ch.categories # << >> /\ NonEmptyCategories(ch) # << >>
    THEN <<"group-title=\"">> \o Join(<<",">>, NonEmptyCategories(ch)) \o <<"\" ">>
    ELSE << >>

\* lg.py:179-190
Extinf(ch) ==
    <<"#EXTINF:-1 tvg-id=\"">> \o Str(ch.id) \o <<"\" ">>
    \o <<"tvg-name=\"">> \o Str(ch.name) \o <<"\" ">>
    \o (IF Truthy(ch.logo) THEN <<"tvg-logo=\"">> \o Str(ch.logo) \o <<"\" ">> ELSE << >>)
    \o GroupTitle(ch)
    \o <<",">> \o Str(ch.name)

RECURSIVE M3uEntries(_)
\* the loop at lg.py:174-192
M3uEntries(chs) ==
    IF chs = << >> THEN << >>
    ELSE (IF NoStream(Head(chs)) THEN << >>
          ELSE <<Extinf(Head(chs)), Head(chs).stream_url>>)
         \o M3uEntries(Tail(chs))

\* the first channel with a stream URL whose categories cannot be joined
M3uRaises(chs) == \E i \in 1..Len(chs) : ~NoStream(chs[i]) /\ JoinRaises(chs[i])

\* the list m3u_content; raised: a TypeError left the function
generate_m3u_playlist(chs) ==
    IF chs = << >> THEN [raised |-> FALSE, lines |-> << <<"#EXTM3U">> >>]
    ELSE IF M3uRaises(chs) THEN [raised |-> TRUE, lines |-> << >>]
    ELSE [raised |-> FALSE,
          lines |-> << <<"#EXTM3U x-tvg-url=">> \o EPG_FILENAME >> \o M3uEntries(chs)]

----------------------------------------------------------------------------
(* format_time, lg.py:299-316.  A timestamp is a sequence of tokens:       *)
(* digit groups and the separators "-", "T", ":", ".", "+", "Z".           *)

YearTokens == {"2024"}
MonthTokens == {"01", "05"}
DayTokens == {"01", "05", "30"}
HourTokens == {"00", "01", "05"}
MinSecTokens == {"00", "01", "05", "30"}
FracTokens == {"000", "123456"}
SignTokens == {"+", "-"}

TsStart == <<"2024", "-", "01", "-", "01", "T", "00", ":", "00", ":", "00", "Z">>
TsEnd == <<"2024", "-", "01", "-", "01", "T", "01", ":", "30", ":", "00", "+", "05", ":", "30">>
TsFrac == <<"2024", "-", "01", "-", "01", "T", "00", ":", "00", ":", "00", ".", "000", "Z">>
TsNaive == <<"2024", "-", "05", "-", "30", "T", "05", ":", "00", ":", "00">>
TsBad == <<"not-a-date">>

RECURSIVE ReplaceToken(_, _, _)
\* s.replace(old, new) for a one-token old
ReplaceToken(s, old, new) ==
    IF s = << >> THEN << >>
    ELSE (IF Head(s) = old THEN new ELSE <<Head(s)>>) \o ReplaceToken(Tail(s), old, new)

RECURSIVE Find(_, _, _)
\* s.find(tok): first position from i on, 0 when there is none
Find(s, tok, i) ==
    IF i > Len(s) THEN 0 ELSE IF s[i] = tok THEN i ELSE Find(s, tok, i + 1)

\* lg.py:306-307
ZToOffset(s) ==
    IF \E i \in 1..Len(s) : s[i] = "Z" THEN ReplaceToken(s, "Z", <<"+", "00", ":", "00">>) ELSE s

\* lg.py:309-310: split('.')[0] + s[s.find('.'):].replace(':', '')
FoldFraction(s) ==
    LET dot == Find(s, ".", 1) IN
    IF dot = 0 THEN s
    ELSE SubSeq(s, 1, dot - 1) \o ReplaceToken(SubSeq(s, dot, Len(s)), ":", << >>)

\* datetime.fromisoformat on the folded string.  lenient: Python >= 3.11
\* also takes an offset written without its colon; earlier versions raise
\* ValueError on it.
IsoFields(s, lenient) ==
    LET n == Len(s)
        dateOk == /\ n >= 5
                  /\ s[1] \in YearTokens /\ s[2] = "-" /\ s[3] \in MonthTokens
                  /\ s[4] = "-" /\ s[5] \in DayTokens
        timeOk == /\ n >= 11
                  /\ s[6] = "T" /\ s[7] \in HourTokens /\ s[8] = ":"
                  /\ s[9] \in MinSecTokens /\ s[10] = ":" /\ s[11] \in MinSecTokens
        rest == IF n >= 12 THEN SubSeq(s, 12, n) ELSE << >>
        hasFrac == rest # << >> /\ Head(rest) = "."
        fracOk == Len(rest) >= 2 /\ rest[2] \in FracTokens
        tz == IF hasFrac /\ fracOk THEN SubSeq(rest, 3, Len(rest)) ELSE rest
        tzColon == /\ Len(tz) = 4 /\ tz[1] \in SignTokens /\ tz[2] \in HourTokens
                   /\ tz[3] = ":" /\ tz[4] \in MinSecTokens
        tzBasic == /\ Len(tz) = 3 /\ tz[1] \in SignTokens /\ tz[2] \in HourTokens
                   /\ tz[3] \in MinSecTokens
        tzOk == tz = << >> \/ tzColon \/ (lenient /\ tzBasic)
    IN  [ok |-> dateOk /\ (n = 5 \/ (timeOk /\ (hasFrac => fracOk) /\ tzOk)),
         date |-> IF dateOk THEN <<s[1], s[3], s[5]>> ELSE << >>,
         time |-> IF dateOk /\ n > 5 /\ timeOk THEN <<s[7], s[9], s[11]>>
                  ELSE <<"00", "00", "00">>,
         offset |-> IF tzColon THEN <<tz[1], tz[2], tz[4]>>
                    ELSE IF tzBasic THEN tz ELSE << >>]

\* format_time raises (TypeError, not caught at lg.py:314) on a truthy value
\* that is not a string
FormatRaises(v) == Truthy(v) /\ ~IsStr(v)

\* format_time(time_str) for a string or a falsy value: '%Y%m%d%H%M%S %z'
format_time(v, lenient) ==
    IF ~Truthy(v) THEN << >>
    ELSE LET f == IsoFields(FoldFraction(ZToOffset(v)), lenient) IN
         IF f.ok THEN f.date \o f.time \o <<" ">> \o f.offset ELSE << >>

----------------------------------------------------------------------------
(* Programme records as the guide endpoint serves them *)

Genre(list, v) == [list |-> list, v |-> v]
NoGenre == Genre(FALSE, <<Absent>>)

RawProgram(startTime, endTime, title, description, genre, imageUrl) ==
    [dict |-> TRUE, startTime |-> startTime, endTime |-> endTime, title |-> title,
     description |-> description, genre |-> genre, imageUrl |-> imageUrl]

PrNotDict ==
    [dict |-> FALSE, startTime |-> Absent, endTime |-> Absent, title |-> Absent,
     description |-> Absent, genre |-> NoGenre, imageUrl |-> Absent]
PrOk ==
    RawProgram(TsStart, TsEnd, <<"News at Ten">>, <<"Daily news">>,
               Genre(TRUE, << <<"News">>, << >>, <<"Live">> >>), <<"/", "img/1.png">>)
PrNoStart == RawProgram(Absent, TsEnd, <<"No start">>, Absent, NoGenre, Absent)
PrNullEnd == RawProgram(TsStart, Null, <<"Null end">>, Absent, NoGenre, Absent)
PrEmptyEnd == RawProgram(TsStart, << >>, <<"Empty end">>, Absent, NoGenre, Absent)
PrBadStart ==
    RawProgram(TsBad, TsFrac, <<"Bad start">>, Absent, Genre(FALSE, << <<"Film">> >>), Absent)
PrNumStart == RawProgram(Num, TsNaive, <<"Numeric start">>, Absent, NoGenre, Absent)
PrNumImage == RawProgram(TsStart, TsEnd, <<"Numeric image">>, Absent, NoGenre, Num)
PrNumTitle == RawProgram(TsStart, TsEnd, Num, Absent, NoGenre, <<"https://", "img/2.png">>)

GuidePrograms == {PrOk, PrNoStart, PrNullEnd, PrEmptyEnd, PrBadStart, PrNumStart, PrNumImage}
MainPrograms == {PrNotDict, PrOk, PrNumImage, PrNumTitle}

----------------------------------------------------------------------------
(* xml.etree.ElementTree elements *)

Attrib(k, v) == [k |-> k, v |-> v]

\* src: where the element came from (not program state)
Element(tag, attrib, text, children, src) ==
    [tag |-> tag, attrib |-> attrib, text |-> text, children |-> children, src |-> src]

\* ET.SubElement(parent, tag).text = text
TextElement(tag, text) == Element(tag, << >>, text, << >>, << >>)

HasAttr(e, k) == \E i \in 1..Len(e.attrib) : e.attrib[i].k = k
Attr(e, k) == e.attrib[CHOOSE i \in 1..Len(e.attrib) : e.attrib[i].k = k].v

\* ET.tostring raises TypeError on text or an attribute that is not a string
RECURSIVE Serializable(_)
Serializable(elems) ==
    \A i \in 1..Len(elems) :
        /\ elems[i].text = Null \/ IsStr(elems[i].text)
        /\ \A a \in 1..Len(elems[i].attrib) : IsStr(elems[i].attrib[a].v)
        /\ Serializable(elems[i].children)

----------------------------------------------------------------------------
(* The remote side.  env.scope names the family of bodies the endpoints    *)
(* serve in this run, env.budget the number of programmes the guide        *)
(* endpoint may still serve, env.served the last body served, and          *)
(* env.lenientIso whether the interpreter is Python >= 3.11.               *)

RawKinds(scope) == IF scope = "main" THEN MainRaw ELSE TypedRaw \cup {RawBadCats}
ProgramKinds(scope) == IF scope = "main" THEN MainPrograms ELSE GuidePrograms
CatalogLength(scope) ==
    IF scope = "main" THEN MaxMainChannels ELSE IF scope = "fetch" THEN 1 ELSE MaxChannels

Catalogs(scope) ==
    {NoneV, Body("dict", "absent", << >>)}
    \cup {Body("list", "", rs) : rs \in SeqsUpTo(RawKinds(scope), CatalogLength(scope))}

GuideBodies(scope, budget) ==
    {NoneV, Body("str", "", << >>), Body("dict", "absent", << >>)}
    \cup (IF scope = "main" THEN {Body("dict", "null", << >>)} ELSE {})
    \cup {Body("dict", "list", ps) : ps \in SeqsUpTo(ProgramKinds(scope), budget)}

InitEnv(scope, budget, lenients) ==
    {[scope |-> scope, budget |-> budget, lenientIso |-> l, served |-> NoneV] :
        l \in lenients}

----------------------------------------------------------------------------
(* fetch_data, lg.py:63-89 *)

FailureKinds == {"connection_error", "timeout", "http_error", "bad_json"}

FetchIdle ==
    [url |-> "", retries |-> 0, attempt |-> 0, requests |-> 0, failed |-> 0,
     slept |-> 0, last |-> "", status |-> "idle", result |-> NoneV]

\* the call fetch_data(url, retries=retries): loop variable at range start
FetchCall(url, retries) ==
    [FetchIdle EXCEPT !.url = url, !.retries = retries, !.status = "running"]

\* range(retries + 1) still has an element for the loop
InLoopMut(f) == f.attempt < f.retries
InLoop(f) == f.attempt < f.retries + 1

\* `if attempt == retries` at lg.py:81
LastAttempt(f) == f.attempt = f.retries

\* lg.py:71-79: the GET succeeds with a 2xx status and a JSON body
FetchSuccess ==
    /\ fetch.status = "running"
    /\ InLoop(fetch)
    /\ \E body \in IF fetch.url = "channels" THEN Catalogs(env.scope)
                   ELSE GuideBodies(env.scope, env.budget) :
         /\ fetch' = [fetch EXCEPT !.requests = @ + 1, !.last = "ok",
                                   !.status = "returned", !.result = body]
         /\ env' = [env EXCEPT !.served = body,
                               !.budget = IF fetch.url = "epg" THEN @ - Len(body.v) ELSE @]
    /\ UNCHANGED <<pc, channels, m3u, tv, chIdx, guide, files, exitCode, lines, cleaned, pass, log>>

\* lg.py:80-88: the GET raises a RequestException; the exception is logged
\* (fetch.last) only when the last attempt failed, lg.py:82
FetchFailure ==
    /\ fetch.status = "running"
    /\ InLoop(fetch)
    /\ \E kind \in FailureKinds :
         fetch' = IF LastAttempt(fetch)
                  THEN [fetch EXCEPT !.requests = @ + 1, !.failed = @ + 1, !.last = kind,
                                     !.status = "returned", !.result = NoneV]
                  ELSE [fetch EXCEPT !.requests = @ + 1, !.failed = @ + 1,
                                     !.slept = @ + RETRY_DELAY * (fetch.attempt + 1),
                                     !.attempt = @ + 1]
    /\ UNCHANGED <<pc, env, channels, m3u, tv, chIdx, guide, files, exitCode, lines, cleaned, pass, log>>

\* lg.py:89: the loop ran out (only when retries + 1 <= 0)
FetchLoopEnd ==
    /\ fetch.status = "running"
    /\ ~InLoop(fetch)
    /\ fetch' = [fetch EXCEPT !.status = "returned", !.result = NoneV]
    /\ UNCHANGED <<pc, env, channels, m3u, tv, chIdx, guide, files, exitCode, lines, cleaned, pass, log>>

----------------------------------------------------------------------------
(* get_epg_data, lg.py:140-164, applied to what fetch_data returned *)

\* raised: len(programs) at lg.py:163 raises TypeError when 'programs' is null
get_epg_data(data) ==
    IF ~BodyTruthy(data) \/ data.t # "dict" \/ data.k = "absent"
    THEN [raised |-> FALSE, programs |-> << >>]
    ELSE IF data.k = "null" THEN [raised |-> TRUE, programs |-> << >>]
    ELSE [raised |-> FALSE, programs |-> data.v]

----------------------------------------------------------------------------
(* generate_epg_xml, lg.py:196-297 *)

\* `if not channel_id` at lg.py:215 and lg.py:236
HasIdMut(ch) == TRUE
HasId(ch) == Truthy(GetNone(ch.id))

\* lg.py:219-226
ChannelElement(ch, i) ==
    Element("channel", <<Attrib("id", Str(ch.id))>>, Null,
            <<TextElement("display-name", ch.name)>>
            \o (IF Truthy(ch.logo)
                THEN <<Element("icon", <<Attrib("src", ch.logo)>>, Null, << >>, << >>)>>
                ELSE << >>)
            \o (IF Truthy(ch.description) THEN <<TextElement("desc", ch.description)>>
                ELSE << >>),
            <<i>>)

RECURSIVE ChannelElements(_, _)
\* the loop at lg.py:212-231 from position i on
ChannelElements(chs, i) ==
    IF i > Len(chs) THEN << >>
    ELSE (IF HasId(chs[i]) THEN <<ChannelElement(chs[i], i)>> ELSE << >>)
         \o ChannelElements(chs, i + 1)

\* lg.py:252, `if not start_time or not end_time`
MissingTimeMut(p) == ~Truthy(GetNone(p.startTime))
MissingTime(p) == ~Truthy(GetNone(p.startTime)) \/ ~Truthy(GetNone(p.endTime))

\* lg.py:274-281
CategoryElements(genre) ==
    IF genre.list
    THEN [i \in 1..Len(SelectSeq(genre.v, Truthy)) |->
              TextElement("category", SelectSeq(genre.v, Truthy)[i])]
    ELSE IF Truthy(GetNone(genre.v[1])) THEN <<TextElement("category", genre.v[1])>>
    ELSE << >>

\* lg.py:284-289; lg.py:285 raises AttributeError on a truthy value that is
\* not a string, after the programme element was attached at lg.py:261
ImageRaises(p) == Truthy(GetNone(p.imageUrl)) /\ ~IsStr(p.imageUrl)
IconElements(p) ==
    IF ~Truthy(GetNone(p.imageUrl)) \/ ImageRaises(p) THEN << >>
    ELSE <<Element("icon",
                   <<Attrib("src", IF StartsWithHttp(p.imageUrl) THEN p.imageUrl
                                   ELSE urljoin(BASE_URL, p.imageUrl))>>,
                   Null, << >>, << >>)>>

\* lg.py:246-261: the program reaches ET.SubElement(tv, 'programme', ...)
ReachesSubElement(p) ==
    /\ p.dict
    /\ ~MissingTime(p)
    /\ ~FormatRaises(p.startTime)
    /\ ~FormatRaises(p.endTime)

\* lg.py:255-289: the element one program leaves under <tv>
ProgrammeElement(ch, p, c, j, lenient) ==
    Element("programme",
            <<Attrib("channel", Str(ch.id)),
              Attrib("start", format_time(p.startTime, lenient)),
              Attrib("stop", format_time(p.endTime, lenient))>>,
            Null,
            (IF Truthy(GetNone(p.title)) THEN <<TextElement("title", p.title)>> ELSE << >>)
            \o (IF Truthy(GetNone(p.description))
                THEN <<TextElement("desc", p.description)>> ELSE << >>)
            \o CategoryElements(p.genre)
            \o IconElements(p),
            <<c, j>>)

RECURSIVE ProgrammeElements(_, _, _, _, _)
\* the loop at lg.py:244-292 from position j on
ProgrammeElements(ch, ps, c, j, lenient) ==
    IF j > Len(ps) THEN << >>
    ELSE (IF ReachesSubElement(ps[j]) THEN <<ProgrammeElement(ch, ps[j], c, j, lenient)>>
          ELSE << >>)
         \o ProgrammeElements(ch, ps, c, j + 1, lenient)

NoTree == [ok |-> FALSE, elems |-> << >>]

\* lg.py:198-231: the early return and the channel loop
GenerateEpgChannels ==
    /\ pc = "generate_epg_xml"
    /\ IF channels = << >>
       THEN /\ tv' = NoTree
            /\ chIdx' = 0
            /\ pc' = "save_gzipped_xml"
       ELSE /\ tv' = [ok |-> TRUE, elems |-> ChannelElements(channels, 1)]
            /\ chIdx' = 1
            /\ pc' = "epg_programs"
    /\ guide' = << >>
    /\ UNCHANGED <<fetch, env, channels, m3u, files, exitCode, lines, cleaned, pass, log>>

\* lg.py:234-240 and 297: next channel of the programme loop, or return
EpgNextChannel ==
    /\ pc = "epg_programs"
    /\ IF chIdx > Len(channels)
       THEN /\ pc' = "save_gzipped_xml"
            /\ UNCHANGED <<fetch, chIdx, guide>>
       ELSE IF ~HasId(channels[chIdx])
       THEN /\ chIdx' = chIdx + 1
            /\ guide' = Append(guide, [data |-> NoneV, status |-> "no_id", programs |-> << >>])
            /\ UNCHANGED <<pc, fetch>>
       ELSE /\ fetch' = FetchCall("epg", MAX_RETRIES)
            /\ pc' = "get_epg_data"
            /\ UNCHANGED <<chIdx, guide>>
    /\ UNCHANGED <<env, channels, m3u, tv, files, exitCode, lines, cleaned, pass, log>>

\* lg.py:156-164 and 240-295: the programmes of channel chIdx
EpgPrograms ==
    /\ pc = "get_epg_data"
    /\ fetch.status = "returned"
    /\ LET got == get_epg_data(fetch.result) IN
         /\ tv' = [tv EXCEPT !.elems =
                      @ \o IF got.raised THEN << >>
                           ELSE ProgrammeElements(channels[chIdx], got.programs, chIdx, 1,
                                                  env.lenientIso)]
         /\ guide' = Append(guide, [data |-> fetch.result,
                                    status |-> IF got.raised THEN "raised" ELSE "returned",
                                    programs |-> got.programs])
    /\ chIdx' = chIdx + 1
    /\ fetch' = FetchIdle
    /\ pc' = "epg_programs"
    /\ UNCHANGED <<env, channels, m3u, files, exitCode, lines, cleaned, pass, log>>

----------------------------------------------------------------------------
(* main, lg.py:367-404 *)

NoFiles == [dir |-> "", m3u |-> "", epg |-> "", out |-> << >>]
NoM3u == [raised |-> FALSE, lines |-> << >>]

\* lg.py:373-375 with ensure_output_dir (lg.py:51-61), then the call of
\* get_channels at lg.py:378
EnsureOutputDir ==
    /\ pc = "main"
    /\ \E outcome \in {"exists", "created", "failed"} :
         /\ files' = [files EXCEPT !.dir = outcome]
         /\ IF outcome = "failed"
            THEN /\ log' = Append(log, "Failed to create output directory. Exiting.")
                 /\ exitCode' = 1
                 /\ pc' = "exit"
                 /\ UNCHANGED fetch
            ELSE /\ fetch' = FetchCall("channels", MAX_RETRIES)
                 /\ pc' = "get_channels"
                 /\ UNCHANGED <<exitCode, log>>
    /\ UNCHANGED <<env, channels, m3u, tv, chIdx, guide, lines, cleaned, pass>>

\* get_channels returns (lg.py:97-138) and main tests the list (lg.py:379-381)
GetChannels ==
    /\ pc = "get_channels"
    /\ fetch.status = "returned"
    /\ channels' = get_channels(fetch.result)
    /\ fetch' = FetchIdle
    /\ IF channels' = << >>
       THEN /\ log' = Append(log, "No channels found. Exiting.")
            /\ exitCode' = 1
            /\ pc' = "exit"
       ELSE /\ pc' = "generate_m3u_playlist"
            /\ UNCHANGED <<exitCode, log>>
    /\ UNCHANGED <<env, m3u, tv, chIdx, guide, files, lines, cleaned, pass>>

\* lg.py:384-385; an exception leaving generate_m3u_playlist reaches the
\* handler at lg.py:402-404
GenerateM3u ==
    /\ pc = "generate_m3u_playlist"
    /\ m3u' = generate_m3u_playlist(channels)
    /\ IF m3u'.raised
       THEN /\ log' = Append(log, "Unhandled exception")
            /\ exitCode' = 1
            /\ pc' = "exit"
       ELSE /\ pc' = "save_playlist"
            /\ UNCHANGED <<exitCode, log>>
    /\ UNCHANGED <<fetch, env, channels, tv, chIdx, guide, files, lines, cleaned, pass>>

\* lg.py:386-387 with save_playlist (lg.py:348-365): the write may fail
SavePlaylist ==
    /\ pc = "save_playlist"
    /\ \E written \in BOOLEAN :
         /\ files' = [files EXCEPT !.m3u = IF written THEN "written" ELSE "failed"]
         /\ log' = IF written THEN log ELSE Append(log, "Failed to save M3U playlist")
    /\ pc' = "generate_epg_xml"
    /\ UNCHANGED <<fetch, env, channels, m3u, tv, chIdx, guide, exitCode, lines, cleaned, pass>>

\* lg.py:392-397 with save_gzipped_xml (lg.py:318-346): ET.tostring or the
\* write may fail; main then returns and the process ends with status 0
SaveEpg ==
    /\ pc = "save_gzipped_xml"
    /\ \E written \in BOOLEAN :
         files' = [files EXCEPT !.epg =
                       IF ~tv.ok THEN "skipped"
                       ELSE IF ~Serializable(tv.elems) THEN "failed"
                       ELSE IF written THEN "written" ELSE "failed"]
    /\ log' = (IF files'.epg = "failed" THEN Append(log, "Failed to save EPG XML") ELSE log)
              \o <<"=== Generation completed">>
    /\ exitCode' = 0
    /\ pc' = "exit"
    /\ UNCHANGED <<fetch, env, channels, m3u, tv, chIdx, guide, lines, cleaned, pass>>

----------------------------------------------------------------------------
(* udptv.py.  A playlist line is a sequence of fragments; " " is a run of  *)
(* white space, a fragment in QuotedFragments is a double-quoted value.    *)

GROUP_TITLE == "\"UDPTV Live Streams\""
QuotedFragments == {"\"News\"", "\"Kids\"", "\"\"", GROUP_TITLE}
HashFragments == {"#EXTINF", "#EXTM3U", "#EXTGRP", "#EXTVLCOPT", "#"}

LnHeader == <<"#EXTM3U">>
LnQuoted == <<"#EXTINF", ":", "-1 ", "group-title=", "\"News\"", ",One">>
LnNoGroup == <<"#EXTINF", ":", "-1 ", "tvg-id=\"2\"", ",Two">>
LnUnquoted == <<"#EXTINF", ":", "-1 ", "group-title=", "News", ",Three">>
LnIndented == <<" ", "#EXTINF", ":", "-1 ", "group-title=", "\"Kids\"", ",Four">>
LnNoColon == <<"#EXTINF", " -1,Five">>
LnUrl == <<"http://", "host/1.ts", " ">>
LnBlank == << >>
LnGroup == <<"#EXTGRP", ":News">>
LnIndentedGroup == <<" ", "#EXTGRP", ":News">>
LnUpdated == <<"Last Updated", ": 2024-01-01">>

LineKinds == {LnHeader, LnQuoted, LnNoGroup, LnUnquoted, LnIndented, LnNoColon, LnUrl,
              LnBlank, LnGroup, LnIndentedGroup, LnUpdated}

RECURSIVE LStrip(_)
LStrip(l) == IF l # << >> /\ Head(l) = " " THEN LStrip(Tail(l)) ELSE l

RECURSIVE RStrip(_)
RStrip(l) == IF l # << >> /\ l[Len(l)] = " " THEN RStrip(SubSeq(l, 1, Len(l) - 1)) ELSE l

\* str.strip()
Strip(l) == RStrip(LStrip(l))

\* l.startswith(p) for the prefixes udptv.py tests
StartsWithHash(l) == l # << >> /\ Head(l) \in HashFragments
StartsWithExtinf(l) == l # << >> /\ Head(l) = "#EXTINF"
\* udptv.py:47
StartsWithMetadata(l) == StartsWithHash(l) \/ (l # << >> /\ Head(l) = "Last Updated")

\* 'group-title=' in line
HasGroupTitle(l) == \E i \in 1..Len(l) : l[i] = "group-title="

RECURSIVE SubGroupTitle(_)
\* re.sub(r'group-title=".*?"', 'group-title="<GROUP_TITLE>"', line), udptv.py:34
SubGroupTitle(l) ==
    IF l = << >> THEN << >>
    ELSE IF Len(l) >= 2 /\ l[1] = "group-title=" /\ l[2] \in QuotedFragments
    THEN <<"group-title=", GROUP_TITLE>> \o SubGroupTitle(SubSeq(l, 3, Len(l)))
    ELSE <<Head(l)>> \o SubGroupTitle(Tail(l))

RECURSIVE InsertGroupTitle(_)
\* line.replace("#EXTINF:", '#EXTINF:-1 group-title="<GROUP_TITLE>",'), udptv.py:36
InsertGroupTitle(l) ==
    IF l = << >> THEN << >>
    ELSE IF Len(l) >= 2 /\ l[1] = "#EXTINF" /\ l[2] = ":"
    THEN <<"#EXTINF", ":", "-1 ", "group-title=", GROUP_TITLE, ",">>
         \o InsertGroupTitle(SubSeq(l, 3, Len(l)))
    ELSE <<Head(l)>> \o InsertGroupTitle(Tail(l))

\* udptv.py:33-36
Standardize(l) == IF HasGroupTitle(l) THEN SubGroupTitle(l) ELSE InsertGroupTitle(l)

\* udptv.py:41: the next line is taken as the stream URL (tested unstripped)
TakesUrl(ls, i) == i + 1 <= Len(ls) /\ ~StartsWithHash(ls[i + 1])

RECURSIVE CleanFrom(_, _)
\* the loop at udptv.py:27-50 from (1-based) position i on
CleanFrom(ls, i) ==
    IF i > Len(ls) THEN << >>
    ELSE LET line == Strip(ls[i]) IN
         IF StartsWithExtinf(line)
         THEN IF TakesUrl(ls, i)
              THEN <<Standardize(line), Strip(ls[i + 1])>> \o CleanFrom(ls, i + 2)
              ELSE <<Standardize(line)>> \o CleanFrom(ls, i + 1)
         ELSE IF ~StartsWithMetadata(line)
         THEN <<line>> \o CleanFrom(ls, i + 1)
         ELSE CleanFrom(ls, i + 1)

clean_playlist(ls) == CleanFrom(ls, 1)

\* udptv.py:57-61 read back with splitlines(): the two header lines, then
\* the content; a final empty item leaves no line of its own
SavedLines(content) ==
    << <<"#EXTM3U", " url-tvg=\"https://zipline.nocn.ddnsfree.com/u/merged2_epg.xml.gz\"">>,
       <<"#", " Last Updated: now">> >>
    \o (IF content # << >> /\ content[Len(content)] = << >>
        THEN SubSeq(content, 1, Len(content) - 1) ELSE content)

\* udptv.py:11-19 and 66: the download, or exit(1)
DownloadPlaylist ==
    /\ pc = "relay"
    /\ \/ /\ \E ls \in SeqsUpTo(LineKinds, MaxLines) : lines' = ls
          /\ pc' = "clean_playlist"
          /\ UNCHANGED <<exitCode, log>>
       \/ /\ log' = Append(log, "Download failed")
          /\ exitCode' = 1
          /\ pc' = "exit"
          /\ UNCHANGED lines
    /\ UNCHANGED <<fetch, env, channels, m3u, tv, chIdx, guide, files, cleaned, pass>>

\* udptv.py:69
CleanPlaylist ==
    /\ pc = "clean_playlist"
    /\ cleaned' = clean_playlist(lines)
    /\ pc' = "save_playlist_relay"
    /\ UNCHANGED <<fetch, env, channels, m3u, tv, chIdx, guide, files, exitCode, lines, pass, log>>

\* udptv.py:72-74 with save_playlist (udptv.py:55-62): open() or write() may
\* raise OSError, which nothing catches: the interpreter exits with status 1
SaveRelay ==
    /\ pc = "save_playlist_relay"
    /\ \E written \in BOOLEAN :
         IF written
         THEN /\ files' = [files EXCEPT !.out = SavedLines(cleaned)]
              /\ log' = Append(log, "Done! Enjoy your streams!")
              /\ exitCode' = 0
         ELSE /\ log' = Append(log, "Traceback (most recent call last)")
              /\ exitCode' = 1
              /\ UNCHANGED files
    /\ pass' = pass + 1
    /\ pc' = "exit"
    /\ UNCHANGED <<fetch, env, channels, m3u, tv, chIdx, guide, lines, cleaned>>

\* the relay is run again with SOURCE_URL serving the file it saved
RelayOwnOutput ==
    /\ pc = "exit"
    /\ pass = 1
    /\ exitCode = 0
    /\ files.out # << >>
    /\ lines' = files.out
    /\ exitCode' = -1
    /\ pc' = "clean_playlist"
    /\ UNCHANGED <<fetch, env, channels, m3u, tv, chIdx, guide, files, cleaned, pass, log>>

----------------------------------------------------------------------------
(* Specifications *)

Blank ==
    /\ channels = << >>
    /\ m3u = NoM3u
    /\ tv = NoTree
    /\ chIdx = 0
    /\ guide = << >>
    /\ files = NoFiles
    /\ exitCode = -1
    /\ lines = << >>
    /\ cleaned = << >>
    /\ pass = 0
    /\ log = << >>

\* fetch_data(CHANNELS_ENDPOINT, retries=r) on its own
InitFetch ==
    /\ pc = "fetch_data"
    /\ \E r \in -1..MaxRetriesArg : fetch = FetchCall("channels", r)
    /\ env \in InitEnv("fetch", 0, {FALSE})
    /\ Blank

NextFetch == FetchSuccess \/ FetchFailure \/ FetchLoopEnd

SpecFetch == InitFetch /\ [][NextFetch]_vars

\* get_channels() followed by generate_m3u_playlist(channels)
InitPlaylist ==
    /\ pc = "get_channels"
    /\ fetch = FetchCall("channels", MAX_RETRIES)
    /\ env \in InitEnv("playlist", 0, {FALSE})
    /\ Blank

NextPlaylist == FetchSuccess \/ FetchFailure \/ GetChannels \/ GenerateM3u

SpecPlaylist == InitPlaylist /\ [][NextPlaylist]_vars

\* normalized channel records handed to generate_m3u_playlist: records as
\* get_channels builds them, and records without a stream URL
PlaylistChannelKinds ==
    {ChannelInfo(RawOk, 0), ChannelInfo(RawNoStream, 0), ChannelInfo(RawEmptyStream, 0),
     ChannelInfo(RawRelStream, 0), ChannelInfo(RawBadCats, 0),
     [ChannelInfo(RawOk, 0) EXCEPT !.stream_url = << >>],
     [ChannelInfo(RawRelStream, 0) EXCEPT !.stream_url = Null]}

\* generate_m3u_playlist(channels)
InitM3u ==
    /\ pc = "generate_m3u_playlist"
    /\ fetch = FetchIdle
    /\ env \in InitEnv("playlist", 0, {FALSE})
    /\ \E chs \in SeqsUpTo(PlaylistChannelKinds, MaxPlaylistChannels) :
         channels = [i \in 1..Len(chs) |-> [chs[i] EXCEPT !.src = i]]
    /\ m3u = NoM3u
    /\ tv = NoTree
    /\ chIdx = 0
    /\ guide = << >>
    /\ files = NoFiles
    /\ exitCode = -1
    /\ lines = << >>
    /\ cleaned = << >>
    /\ pass = 0
    /\ log = << >>

NextM3u == GenerateM3u

SpecM3u == InitM3u /\ [][NextM3u]_vars

\* the normalized channel record at position i of the list handed to
\* generate_epg_xml; a record without identifier is one get_channels would
\* not return, which generate_epg_xml tests for all the same
GuideChannel(i, withId) ==
    LET ch == IF i % 2 = 1 THEN ChannelInfo(RawOk, i) ELSE ChannelInfo(RawNoStream, i)
    IN  IF withId THEN ch ELSE [ch EXCEPT !.id = << >>]

\* generate_epg_xml(channels)
InitGuide ==
    /\ pc = "generate_epg_xml"
    /\ fetch = FetchIdle
    /\ env \in InitEnv("guide", MaxPrograms, BOOLEAN)
    /\ \E ids \in SeqsUpTo(BOOLEAN, MaxGuideChannels) :
         channels = [i \in 1..Len(ids) |-> GuideChannel(i, ids[i])]
    /\ m3u = NoM3u
    /\ tv = NoTree
    /\ chIdx = 0
    /\ guide = << >>
    /\ files = NoFiles
    /\ exitCode = -1
    /\ lines = << >>
    /\ cleaned = << >>
    /\ pass = 0
    /\ log = << >>

NextGuide == GenerateEpgChannels \/ EpgNextChannel \/ FetchSuccess \/ FetchFailure \/ EpgPrograms

SpecGuide == InitGuide /\ [][NextGuide]_vars

\* python lg.py, and python udptv.py
InitMain ==
    /\ pc \in {"main", "relay"}
    /\ fetch = FetchIdle
    /\ env \in InitEnv("main", MaxMainPrograms, BOOLEAN)
    /\ Blank

NextMain ==
    \/ EnsureOutputDir \/ FetchSuccess \/ FetchFailure \/ GetChannels \/ GenerateM3u
    \/ SavePlaylist \/ GenerateEpgChannels \/ EpgNextChannel \/ EpgPrograms \/ SaveEpg
    \/ DownloadPlaylist \/ CleanPlaylist \/ SaveRelay

SpecMain == InitMain /\ [][NextMain]_vars

\* python udptv.py, then once more on the file it saved
InitRelay ==
    /\ pc = "relay"
    /\ fetch = FetchIdle
    /\ env \in InitEnv("relay", 0, {FALSE})
    /\ Blank

NextRelay == DownloadPlaylist \/ CleanPlaylist \/ SaveRelay \/ RelayOwnOutput

SpecRelay == InitRelay /\ [][NextRelay]_vars

----------------------------------------------------------------------------
(* Claims *)

\* C1: fetch_data issues at most retries + 1 GET requests; when it returns
\* after a successful attempt, every earlier attempt had failed, that attempt
\* was the last request and the result is the body it served; when it
\* returns without a success, retries + 1 attempts were made and failed and
\* the result is None.
C1_BoundedRetry ==
    /\ fetch.requests <= fetch.retries + 1
    /\ fetch.status = "returned" =>
         \/ /\ fetch.last = "ok"
            /\ fetch.requests = fetch.failed + 1
            /\ fetch.result = env.served
         \/ /\ fetch.last # "ok"
            /\ fetch.requests = fetch.failed
            /\ fetch.failed = fetch.retries + 1
            /\ fetch.result = NoneV

\* fetch_data(url, retries=MAX_RETRIES) gave up after MAX_RETRIES + 1 failures
C1_Witness ==
    /\ fetch.status = "returned"
    /\ fetch.retries = MAX_RETRIES
    /\ fetch.failed = MAX_RETRIES + 1
    /\ fetch.last = "timeout"
    /\ fetch.result = NoneV

\* the #EXTINF line generate_m3u_playlist writes for channel ch
IsExtinfFor(line, ch) ==
    /\ Len(line) > Len(Str(ch.id))
    /\ line[1] = "#EXTINF:-1 tvg-id=\""
    /\ SubSeq(line, 2, 1 + Len(Str(ch.id))) = Str(ch.id)

\* the catalogue get_channels received, as a list
RawCatalog == IF env.served.t = "list" THEN env.served.v ELSE << >>

\* C2 (as claimed): every raw channel record with an identifier and a
\* missing or empty streamUrl is kept by get_channels, and the playlist
\* generate_m3u_playlist builds from that list has no #EXTINF entry for it.
C2_StreamlessNotEmitted ==
    pc = "save_playlist" =>
        \A i \in 1..Len(RawCatalog) :
            (/\ RawCatalog[i].dict
             /\ RawCatalog[i].id \notin {Absent, Null, << >>}
             /\ RawCatalog[i].streamUrl \in {Absent, Null, << >>})
            => /\ \E k \in 1..Len(channels) : channels[k].src = i
               /\ \A k \in 1..Len(channels) :
                    channels[k].src = i =>
                        ~\E j \in 1..Len(m3u.lines) : IsExtinfFor(m3u.lines[j], channels[k])

\* C5: the list get_channels returns is an order-preserving subsequence of
\* the raw records (never longer), every record in it has a non-empty
\* identifier, and no raw record without identifier is in it.
C5_ChannelsSubsequence ==
    pc # "get_channels" =>
        /\ Len(channels) <= Len(RawCatalog)
        /\ \A k \in 1..Len(channels) :
             /\ channels[k].src \in 1..Len(RawCatalog)
             /\ channels[k].id = RawCatalog[channels[k].src].id
             /\ channels[k].id \notin {Absent, Null, << >>}
        /\ \A k \in 1..(Len(channels) - 1) : channels[k].src < channels[k + 1].src
        /\ \A i \in 1..Len(RawCatalog) :
             RawCatalog[i].id \in {Absent, Null, << >>}
             => \A k \in 1..Len(channels) : channels[k].src # i

\* get_channels dropped a record without identifier and kept a later one
C5_Witness ==
    /\ pc # "get_channels"
    /\ Len(RawCatalog) = 2
    /\ RawCatalog[1].id = << >>
    /\ Len(channels) = 1
    /\ channels[1].src = 2

\* the positions of the channels that have a non-empty stream URL
Streamable(chs) ==
    SelectSeq([k \in 1..Len(chs) |-> k], LAMBDA k : chs[k].stream_url \notin {Absent, Null, << >>})

Programmes == SelectSeq(tv.elems, LAMBDA e : e.tag = "programme")
ChannelElems == SelectSeq(tv.elems, LAMBDA e : e.tag = "channel")

\* the document has a programme element for program j of channel c
Emitted(c, j) == \E n \in 1..Len(Programmes) : Programmes[n].src = <<c, j>>

\* program j of the list get_epg_data gave for channel c
ProgramOf(c, j) == guide[c].programs[j]

\* a value that is a non-empty string
NonEmptyString(v) == v \notin {Absent, Null, Num, << >>}

\* C3 (as claimed): a program whose startTime or endTime format_time cannot
\* parse is dropped, so every programme element of the guide document has a
\* non-empty start and a non-empty stop attribute.
C3_TimesNeverEmpty ==
    \A n \in 1..Len(Programmes) :
        /\ Attr(Programmes[n], "start") # << >>
        /\ Attr(Programmes[n], "stop") # << >>

\* C4: no program whose startTime or endTime is absent, null or empty has a
\* programme element in the guide document, while every program of the same
\* list whose startTime and endTime are non-empty strings has exactly one.
C4_MissingTimeNeverEmitted ==
    \A c \in 1..Len(guide) : \A j \in 1..Len(guide[c].programs) :
        /\ (\/ ProgramOf(c, j).startTime \in {Absent, Null, << >>}
            \/ ProgramOf(c, j).endTime \in {Absent, Null, << >>})
           => ~Emitted(c, j)
        /\ (/\ ProgramOf(c, j).dict
            /\ NonEmptyString(ProgramOf(c, j).startTime)
            /\ NonEmptyString(ProgramOf(c, j).endTime))
           => Cardinality({n \in 1..Len(Programmes) : Programmes[n].src = <<c, j>>}) = 1

\* a channel whose first program has a null endTime and whose second program
\* is complete: only the second one is in the document
C4_Witness ==
    \E c \in 1..Len(guide) :
        /\ Len(guide[c].programs) = 2
        /\ ProgramOf(c, 1).endTime = Null
        /\ NonEmptyString(ProgramOf(c, 2).endTime)
        /\ ~Emitted(c, 1)
        /\ Emitted(c, 2)

\* C9 (as claimed): a program whose processing raises (a timestamp or an
\* imageUrl that is a number, on which the code calls a string method) has
\* no programme element in the guide document.
C9_RaisingProgramLeavesNothing ==
    \A c \in 1..Len(guide) : \A j \in 1..Len(guide[c].programs) :
        (/\ ProgramOf(c, j).dict
         /\ \/ ProgramOf(c, j).startTime = Num
            \/ ProgramOf(c, j).endTime = Num
            \/ ProgramOf(c, j).imageUrl = Num)
        => ~Emitted(c, j)

\* the positions of the channels that have an identifier
Identified(chs) == 
    SelectSeq([k \in 1..Len(chs) |-> k], LAMBDA k : chs[k].id \notin {Absent, Null, << >>})

\* the response for a channel is an object with a programs array
ValidGuide(data) == data.t = "dict" /\ data.k = "list"

\* C10: the document generate_epg_xml builds has one channel element per
\* channel with an identifier, in order; when generate_epg_xml returns,
\* every channel was gone through; a channel whose guide fetch failed or
\* whose response is not an object with a programs array has no programme
\* element; a channel whose response is valid has its programmes.
C10_GuideFailureNonFatal ==
    tv.ok =>
        /\ Len(ChannelElems) = Len(Identified(channels))
        /\ \A n \in 1..Len(ChannelElems) :
             /\ ChannelElems[n].src = <<Identified(channels)[n]>>
             /\ Attr(ChannelElems[n], "id") = Str(channels[Identified(channels)[n]].id)
        /\ pc = "save_gzipped_xml" => Len(guide) = Len(channels)
        /\ \A c \in 1..Len(guide) :
             IF channels[c].id \notin {Absent, Null, << >>} /\ ValidGuide(guide[c].data)
             THEN \A j \in 1..Len(guide[c].data.v) :
                      (/\ guide[c].data.v[j].dict
                       /\ NonEmptyString(guide[c].data.v[j].startTime)
                       /\ NonEmptyString(guide[c].data.v[j].endTime))
                      => Emitted(c, j)
             ELSE \A n \in 1..Len(Programmes) : Programmes[n].src[1] # c

\* generate_epg_xml returned a document although the guide of the first
\* channel could not be fetched; the second channel has its programme
C10_Witness ==
    /\ pc = "save_gzipped_xml"
    /\ Len(guide) = 2
    /\ guide[1].status = "returned"
    /\ guide[1].data = NoneV
    /\ ValidGuide(guide[2].data)
    /\ Emitted(2, 1)
    /\ Len(ChannelElems) = 2

\* C7 (as claimed): the process exits nonzero when the output directory
\* cannot be created, when get_channels returns an empty list, or (relay)
\* when the playlist download fails; in every other run it exits zero.
C7_ExitStatus ==
    pc = "exit" =>
        (exitCode # 0 <=>
            \/ files.dir = "failed"
            \/ files.dir \in {"exists", "created"} /\ channels = << >>
            \/ log # << >> /\ log[Len(log)] = "Download failed")

RECURSIVE GroupLabel(_)
\* the value that follows group-title= in a playlist line, "" when none does
GroupLabel(l) ==
    IF Len(l) < 2 THEN ""
    ELSE IF l[1] = "group-title=" THEN l[2]
    ELSE GroupLabel(Tail(l))

\* the group labels of the #EXTINF entries of a playlist, in order
Labels(ls) ==
    LET entries == SelectSeq(ls, StartsWithExtinf)
    IN  [n \in 1..Len(entries) |-> GroupLabel(entries[n])]

\* C8 (as claimed): after one pass of clean_playlist every #EXTINF entry of
\* the output has the group label "UDPTV Live Streams", and a second pass
\* over the saved output of the first leaves every entry's label unchanged.
C8_LabelsStandardized ==
    pc = "save_playlist_relay" =>
        /\ \A n \in 1..Len(Labels(cleaned)) : Labels(cleaned)[n] = GROUP_TITLE
        /\ pass = 1 => Labels(cleaned) = Labels(lines)

\* the output has line a immediately followed by line b
Adjacent(ls, a, b) == \E k \in 1..(Len(ls) - 1) : ls[k] = a /\ ls[k + 1] = b

\* C11 (as claimed): in the output of clean_playlist (a) every #EXTINF line
\* that a line which is not a comment follows in the input is there, rewritten,
\* with that line right after it as its stream URL, and (b) the only output
\* lines beginning with '#' are the rewritten #EXTINF lines of the input.
C11_LineWalk ==
    pc = "save_playlist_relay" =>
        /\ \A i \in 1..(Len(lines) - 1) :
             (StartsWithExtinf(Strip(lines[i])) /\ ~StartsWithHash(Strip(lines[i + 1])))
             => Adjacent(cleaned, Standardize(Strip(lines[i])), Strip(lines[i + 1]))
        /\ \A k \in 1..Len(cleaned) :
             StartsWithHash(cleaned[k])
             => /\ StartsWithExtinf(cleaned[k])
                /\ \E i \in 1..Len(lines) :
                     /\ StartsWithExtinf(Strip(lines[i]))
                     /\ cleaned[k] = Standardize(Strip(lines[i]))

====
